---- MODULE Spec2Model ----
(***************************************************************************)
(* Protocol segmentation and wave classification engine of SW-detect:      *)
(*   event_cleaning.clean_events            (the event validator)          *)
(*   epoch_creation.create_and_visualize_epochs  (the epoch segmenter)     *)
(*   wave_classification.classify_wave_time (the time classifier)          *)
(* Times are seconds.  Annotation onsets lie on a grid of 10 s, so every   *)
(* overlap is even and overlap_amount / 2 is an exact integer.             *)
(***************************************************************************)
EXTENDS Integers, Sequences, FiniteSets, TLC

VARIABLES
    annotations,          \* raw.annotations: sequence of [Onset, Description]
    pc,                   \* position in the pipeline
    run,                  \* 1: the pipeline's call of clean_events; 2: a second call on its own output
    first_cleaned,        \* the accepted events of run 1, kept while run 2 re-validates them
    stim_events,          \* clean_events: the filtered, re-indexed events
    i,                    \* clean_events: index counter of the while loop
    expected_event,       \* clean_events: 'stim start' or 'stim end'
    stim_start_event,     \* clean_events: the buffered start row
    cleaned_events,       \* clean_events: accepted rows, start/end alternating
    omitted_events,       \* clean_events: rejection log
    cleaned_events_df,    \* create_and_visualize_epochs: the sorted frame
    protocol_number,      \* create_and_visualize_epochs: protocol counter
    prev_post_stim_end,   \* create_and_visualize_epochs: end of the previous nominal post-stim epoch
    pre_stim_epochs,      \* sequences of <<start, end, protocol>>
    stim_epochs,
    post_stim_epochs,
    original_pre_stim_epochs,
    original_post_stim_epochs,
    overlaps,             \* overlap log
    wave,                 \* the wave row last classified: [Start, Classification, Protocol]
    rewave,               \* the same wave classified against its own protocol's epochs alone
    net_seg_data,         \* the region map: sequence of <<region_name, list_of_channel_groups>>
    channel,              \* classify_wave_region: the channel of the wave
    region,               \* classify_wave_region: the returned label
    df,                   \* classify_and_filter_waves: the wave table, columns added in place
    df_sorted,            \* classify_and_filter_waves: the returned table
    window_size,          \* filter_epochs: the window, in half seconds
    pick_most_negative,   \* filter_epochs: the selection method
    row_index,            \* filter_epochs: rows of df_sorted already iterated
    filtered_epochs_list, \* filter_epochs: the selected waves
    last_end_time,        \* filter_epochs: [finite, value]; not finite is -inf
    current_window,       \* filter_epochs: the waves of the open window
    filtered_files        \* filter_and_save_epochs: the outputs of the calls already made

vars == <<annotations, pc, run, first_cleaned, stim_events, i, expected_event,
          stim_start_event, cleaned_events, omitted_events, cleaned_events_df,
          protocol_number, prev_post_stim_end, pre_stim_epochs, stim_epochs,
          post_stim_epochs, original_pre_stim_epochs, original_post_stim_epochs,
          overlaps, wave, rewave, net_seg_data, channel, region, df, df_sorted,
          window_size, pick_most_negative, row_index, filtered_epochs_list,
          last_end_time, current_window, filtered_files>>

validator_vars == <<stim_events, i, expected_event, stim_start_event,
                    cleaned_events, omitted_events>>

region_vars == <<net_seg_data, channel, region>>

table_vars == <<df, df_sorted>>

classifier_vars == <<rewave, region_vars, table_vars>>

filter_vars == <<window_size, pick_most_negative, row_index, filtered_epochs_list,
                 last_end_time, current_window, filtered_files>>

segmenter_vars == <<cleaned_events_df, protocol_number, prev_post_stim_end,
                    pre_stim_epochs, stim_epochs, post_stim_epochs,
                    original_pre_stim_epochs, original_post_stim_epochs, overlaps>>

(***************************************************************************)
(* Bounds and input families                                               *)
(***************************************************************************)
\* longest annotation stream of arbitrary start/end/other events
MaxEvents == 4
\* most start/end pairs in a stream of alternating pairs
MaxProtocols == 3

min_duration == 170
max_duration == 220

\* gap between consecutive annotations of an arbitrary stream
EventGaps == {10, 170}
EventKinds == {"stim start", "stim end", "other"}
\* gap between the end of a pair and the start of the next, and pair durations
PairGaps == {10, 450}
PairDurations == {170, 220, 230}

RECURSIVE OnsetAt(_, _)
OnsetAt(f, k) == IF k = 0 THEN 0 ELSE OnsetAt(f, k - 1) + f[k][1]

\* arbitrary streams: every event has a gap to its predecessor and a kind
ArbitraryStream(f) ==
    [k \in 1..Len(f) |-> [Onset |-> OnsetAt(f, k), Description |-> f[k][2]]]

ArbitraryStreams ==
    UNION {{ArbitraryStream(f) : f \in [1..n -> EventGaps \X EventKinds]} : n \in 0..MaxEvents}

RECURSIVE PairEnd(_, _)
PairEnd(f, k) == IF k = 0 THEN 0 ELSE PairEnd(f, k - 1) + f[k][1] + f[k][2]

\* streams of start/end pairs: pair k starts f[k][1] after the previous end and lasts f[k][2]
PairedStream(f) ==
    [j \in 1..(2 * Len(f)) |->
        LET k == (j + 1) \div 2 IN
        IF j % 2 = 1
        THEN [Onset |-> PairEnd(f, k) - f[k][2], Description |-> "stim start"]
        ELSE [Onset |-> PairEnd(f, k), Description |-> "stim end"]]

PairedStreams ==
    UNION {{PairedStream(f) : f \in [1..n -> PairGaps \X PairDurations]} : n \in 1..MaxProtocols}

Ev(onset, description) == [Onset |-> onset, Description |-> description]

\* the two worked examples of the specification
ExampleNoOverlap ==
    <<Ev(100, "stim start"), Ev(280, "stim end"), Ev(640, "stim start"), Ev(820, "stim end")>>

ExampleOverlap ==
    <<Ev(100, "stim start"), Ev(280, "stim end"), Ev(630, "stim start"), Ev(810, "stim end")>>

Streams == ArbitraryStreams \cup PairedStreams \cup {ExampleNoOverlap, ExampleOverlap}

(***************************************************************************)
(* event_cleaning.clean_events                                             *)
(***************************************************************************)
\* the buffered start before any start was seen (the Python name is unbound)
Unbound == [name |-> -1, Onset |-> -1, Description |-> "unbound"]

\* an extraction that keeps the annotations of every kind
FilterStimEventsAll(anns) ==
    [k \in 1..Len(anns) |->
        [name |-> k - 1, Onset |-> anns[k].Onset, Description |-> anns[k].Description]]

\* annotations_df[Description.isin([...])].reset_index(drop=True)
FilterStimEvents(anns) ==
    LET kept == SelectSeq(anns, LAMBDA a : a.Description \in {"stim start", "stim end"})
    IN  [k \in 1..Len(kept) |->
            [name |-> k - 1, Onset |-> kept[k].Onset, Description |-> kept[k].Description]]

\* a validator that forgets the lower bound
ValidDurationNoMin(time_diff) == time_diff <= max_duration

\* a validator that forgets the upper bound
ValidDurationNoMax(time_diff) == min_duration <= time_diff

\* line 57
ValidDuration(time_diff) == min_duration <= time_diff /\ time_diff <= max_duration

InvalidDurationRecord(start_ev, end_ev, time_diff) ==
    [stim_start_index |-> start_ev.name, stim_start_onset |-> start_ev.Onset,
     stim_end_index |-> end_ev.name, stim_end_onset |-> end_ev.Onset,
     reason |-> <<"Invalid duration", time_diff>>]

UnexpectedRecord(ev) ==
    [event_index |-> ev.name, event_onset |-> ev.Onset,
     event_description |-> ev.Description,
     reason |-> <<"Unexpected event", ev.Description>>]

\* a validator that expects an end after every mismatch
ExpectedAfterMismatchEnd(expected) == "stim end"

\* a validator that keeps its state on a mismatch
ExpectedAfterMismatchKept(expected) == expected

\* line 87: the expected event after a mismatch
ExpectedAfterMismatch(expected) == "stim start"

\* a validator that keeps expecting an end after it accepted a pair
ExpectedAfterAcceptKept == "stim end"

\* line 61: the expected event after an accepted pair
ExpectedAfterAccept == "stim start"

\* one iteration of the while loop, as a function of the loop state
CleanTransition(st, current_event) ==
    IF current_event.Description = st.expected_event
    THEN IF st.expected_event = "stim start"
         THEN [st EXCEPT !.stim_start_event = current_event,
                         !.expected_event = "stim end"]
         ELSE LET time_diff == current_event.Onset - st.stim_start_event.Onset IN
              IF ValidDuration(time_diff)
              THEN [st EXCEPT !.cleaned_events =
                                  Append(Append(@, st.stim_start_event), current_event),
                              !.expected_event = ExpectedAfterAccept]
              ELSE [st EXCEPT !.omitted_events =
                                  Append(@, InvalidDurationRecord(st.stim_start_event,
                                                                  current_event, time_diff)),
                              !.expected_event = "stim start"]
    ELSE [st EXCEPT !.omitted_events = Append(@, UnexpectedRecord(current_event)),
                    !.expected_event = ExpectedAfterMismatch(st.expected_event)]

\* lines 22-43: extract and filter the annotations, initialise the loop
CleanBegin ==
    /\ pc = "start"
    /\ stim_events' = FilterStimEvents(annotations)
    /\ i' = 0
    /\ expected_event' = "stim start"
    /\ stim_start_event' = Unbound
    /\ cleaned_events' = <<>>
    /\ omitted_events' = <<>>
    /\ pc' = "clean"
    /\ UNCHANGED <<annotations, run, first_cleaned, segmenter_vars, wave, classifier_vars, filter_vars>>

\* lines 45-87: one iteration of the while loop
CleanStep ==
    /\ pc = "clean"
    /\ i < Len(stim_events)
    /\ LET st == [expected_event |-> expected_event,
                  stim_start_event |-> stim_start_event,
                  cleaned_events |-> cleaned_events,
                  omitted_events |-> omitted_events]
           nxt == CleanTransition(st, stim_events[i + 1])
       IN  /\ expected_event' = nxt.expected_event
           /\ stim_start_event' = nxt.stim_start_event
           /\ cleaned_events' = nxt.cleaned_events
           /\ omitted_events' = nxt.omitted_events
    /\ i' = i + 1
    /\ UNCHANGED <<annotations, pc, run, first_cleaned, stim_events, segmenter_vars, wave, classifier_vars, filter_vars>>

\* lines 89-108: the loop is over, the frames are returned
CleanReturn ==
    /\ pc = "clean"
    /\ i >= Len(stim_events)
    /\ pc' = IF run = 1 THEN "cleaned" ELSE "recleaned"
    /\ UNCHANGED <<annotations, run, first_cleaned, validator_vars, segmenter_vars, wave, classifier_vars, filter_vars>>

\* the rows of cleaned_events_df as an annotation stream
AsAnnotations(rows) ==
    [k \in 1..Len(rows) |-> [Onset |-> rows[k].Onset, Description |-> rows[k].Description]]

\* clean_events is called again on the events it accepted
Revalidate ==
    /\ pc = "cleaned"
    /\ run = 1
    /\ run' = 2
    /\ first_cleaned' = cleaned_events
    /\ annotations' = AsAnnotations(cleaned_events)
    /\ pc' = "start"
    /\ UNCHANGED <<validator_vars, segmenter_vars, wave, classifier_vars, filter_vars>>

(***************************************************************************)
(* epoch_creation.create_and_visualize_epochs                              *)
(***************************************************************************)
\* DataFrame(cleaned_events).reset_index(drop=True), as clean_events returns it
ResetIndex(rows) ==
    [k \in 1..Len(rows) |->
        [name |-> k - 1, Onset |-> rows[k].Onset, Description |-> rows[k].Description]]

RECURSIVE InsertByOnset(_, _)
InsertByOnset(sorted, row) ==
    IF sorted = <<>> THEN <<row>>
    ELSE IF sorted[Len(sorted)].Onset <= row.Onset THEN Append(sorted, row)
    ELSE Append(InsertByOnset(SubSeq(sorted, 1, Len(sorted) - 1), row), sorted[Len(sorted)])

RECURSIVE SortFirst(_, _)
SortFirst(rows, n) ==
    IF n = 0 THEN <<>> ELSE InsertByOnset(SortFirst(rows, n - 1), rows[n])

\* line 22: sort_values(by='Onset').reset_index(drop=True)
SortByOnset(rows) == ResetIndex(SortFirst(rows, Len(rows)))

\* an overlap measured the wrong way round
OverlapAmountSwapped(prev_end, orig_pre_start) == orig_pre_start - prev_end

\* line 72
OverlapAmount(prev_end, orig_pre_start) == prev_end - orig_pre_start

\* a split that moves each side by the whole overlap
HalfOverlapWhole(overlap_amount) == overlap_amount

\* lines 87, 118: overlap_amount / 2 (exact: overlaps are even on the onset grid)
HalfOverlap(overlap_amount) == overlap_amount \div 2

\* a shrink that moves the start of the previous post-stim epoch as well
AdjustPrevPostStimShifted(prev_post_stim, half_overlap) ==
    <<prev_post_stim[1] - half_overlap, prev_post_stim[2] - half_overlap, prev_post_stim[3]>>

\* a shrink without the clamp of lines 95-97
AdjustPrevPostStimNoClamp(prev_post_stim, half_overlap) ==
    <<prev_post_stim[1], prev_post_stim[2] - half_overlap, prev_post_stim[3]>>

\* lines 92-100: the previous post-stim epoch with its end pulled back, never before its start
AdjustPrevPostStim(prev_post_stim, half_overlap) ==
    LET adjusted_prev_post_stim_end == prev_post_stim[2] - half_overlap IN
    <<prev_post_stim[1],
      IF adjusted_prev_post_stim_end < prev_post_stim[1]
      THEN prev_post_stim[1] ELSE adjusted_prev_post_stim_end,
      prev_post_stim[3]>>

\* lines 103-108 and 119-123: the current pre-stim start pushed forward, never past its end
AdjustPreStart(orig_pre_start, orig_pre_end, half_overlap) ==
    LET adjusted_pre_start == orig_pre_start + half_overlap IN
    IF adjusted_pre_start > orig_pre_end THEN orig_pre_end ELSE adjusted_pre_start

\* a record that names the current protocol and the one after it
OverlapRecordNextPair(number, overlap_amount, orig_pre_start) ==
    [protocols |-> <<number, number + 1>>,
     overlap_amount |-> overlap_amount,
     overlap_start |-> orig_pre_start,
     overlap_end |-> orig_pre_start + overlap_amount]

\* lines 77-82
OverlapRecord(number, overlap_amount, orig_pre_start) ==
    [protocols |-> <<number - 1, number>>,
     overlap_amount |-> overlap_amount,
     overlap_start |-> orig_pre_start,
     overlap_end |-> orig_pre_start + overlap_amount]

\* a counter that skips a number
NextProtocolNumberSkip(number) == number + 2

\* line 140
NextProtocolNumber(number) == number + 1

\* line 44: the loop index i of range(0, len(cleaned_events_df), 2); every
\* completed iteration appended one stim epoch
LoopIndex == 2 * Len(stim_epochs)

\* lines 21-41: sort the frame, initialise the lists; an empty frame has no
\* 'Onset' column and sort_values raises KeyError
SegmentBegin ==
    /\ pc = "cleaned"
    /\ IF cleaned_events = <<>>
       THEN /\ pc' = "KeyError"
            /\ UNCHANGED cleaned_events_df
       ELSE /\ pc' = "segment"
            /\ cleaned_events_df' = SortByOnset(ResetIndex(cleaned_events))
    /\ protocol_number' = 1
    /\ prev_post_stim_end' = 0
    /\ pre_stim_epochs' = <<>>
    /\ stim_epochs' = <<>>
    /\ post_stim_epochs' = <<>>
    /\ original_pre_stim_epochs' = <<>>
    /\ original_post_stim_epochs' = <<>>
    /\ overlaps' = <<>>
    /\ UNCHANGED <<annotations, run, first_cleaned, validator_vars, wave, classifier_vars, filter_vars>>

\* lines 44-140: one iteration of the for loop
SegmentStep ==
    /\ pc = "segment"
    /\ LoopIndex < Len(cleaned_events_df)
    /\ LoopIndex + 1 < Len(cleaned_events_df)
    /\ LET stim_start == cleaned_events_df[LoopIndex + 1].Onset
           stim_end == cleaned_events_df[LoopIndex + 2].Onset
           stim_duration == stim_end - stim_start
           orig_pre_start == stim_start - stim_duration
           orig_pre_end == stim_start
           orig_post_start == stim_end
           orig_post_end == stim_end + stim_duration
           overlap_amount == OverlapAmount(prev_post_stim_end, orig_pre_start)
           half_overlap == HalfOverlap(overlap_amount)
           pre_stim_start == IF overlap_amount > 0
                             THEN AdjustPreStart(orig_pre_start, orig_pre_end, half_overlap)
                             ELSE orig_pre_start
           adjusted_post == IF overlap_amount > 0 /\ post_stim_epochs # <<>>
                            THEN [post_stim_epochs EXCEPT ![Len(post_stim_epochs)] =
                                      AdjustPrevPostStim(@, half_overlap)]
                            ELSE post_stim_epochs
       IN  /\ original_pre_stim_epochs' =
                  Append(original_pre_stim_epochs, <<orig_pre_start, orig_pre_end, protocol_number>>)
           /\ original_post_stim_epochs' =
                  Append(original_post_stim_epochs, <<orig_post_start, orig_post_end, protocol_number>>)
           /\ overlaps' = IF overlap_amount > 0
                          THEN Append(overlaps,
                                      OverlapRecord(protocol_number, overlap_amount, orig_pre_start))
                          ELSE overlaps
           /\ pre_stim_epochs' = Append(pre_stim_epochs, <<pre_stim_start, orig_pre_end, protocol_number>>)
           /\ stim_epochs' = Append(stim_epochs, <<stim_start, stim_end, protocol_number>>)
           /\ post_stim_epochs' = Append(adjusted_post, <<orig_post_start, orig_post_end, protocol_number>>)
           /\ prev_post_stim_end' = orig_post_end
    /\ protocol_number' = NextProtocolNumber(protocol_number)
    /\ UNCHANGED <<annotations, pc, run, first_cleaned, validator_vars, cleaned_events_df, wave, classifier_vars, filter_vars>>

\* lines 44-47 and 142-152: the loop ends (or breaks at an unpaired row) and the lists are returned
SegmentReturn ==
    /\ pc = "segment"
    /\ ~(LoopIndex < Len(cleaned_events_df) /\ LoopIndex + 1 < Len(cleaned_events_df))
    /\ pc' = "segmented"
    /\ UNCHANGED <<annotations, run, first_cleaned, validator_vars, segmenter_vars, wave, classifier_vars, filter_vars>>

(***************************************************************************)
(* wave_classification.classify_wave_time                                  *)
(***************************************************************************)
\* returned for the protocol of a wave no epoch contains
None == 0

\* a containment test that excludes the end of the epoch
InEpochHalfOpen(epoch, start_time) == epoch[1] <= start_time /\ start_time < epoch[2]

\* line 63
InEpoch(epoch, start_time) == epoch[1] <= start_time /\ start_time <= epoch[2]

\* lines 62-65: index of the first epoch of the list, from k on, that contains start_time; 0 if none
RECURSIVE FirstHit(_, _, _)
FirstHit(epochs, k, start_time) ==
    IF k > Len(epochs) THEN 0
    ELSE IF InEpoch(epochs[k], start_time) THEN k
    ELSE FirstHit(epochs, k + 1, start_time)

\* a scan that reports the position of the epoch in its list, not its protocol number
classify_wave_time_by_position(start_time, pre, stim, post) ==
    LET p == FirstHit(pre, 1, start_time)
        s == FirstHit(stim, 1, start_time)
        q == FirstHit(post, 1, start_time)
    IN  IF p # 0 THEN <<"Pre-Stim", p>>
        ELSE IF s # 0 THEN <<"Stim", s>>
        ELSE IF q # 0 THEN <<"Post-Stim", q>>
        ELSE <<"Unknown", None>>

\* a scan that tries the stim epochs before the pre-stim epochs
classify_wave_time_stim_first(start_time, pre, stim, post) ==
    LET p == FirstHit(pre, 1, start_time)
        s == FirstHit(stim, 1, start_time)
        q == FirstHit(post, 1, start_time)
    IN  IF s # 0 THEN <<"Stim", stim[s][3]>>
        ELSE IF p # 0 THEN <<"Pre-Stim", pre[p][3]>>
        ELSE IF q # 0 THEN <<"Post-Stim", post[q][3]>>
        ELSE <<"Unknown", None>>

\* lines 57-68
classify_wave_time(start_time, pre, stim, post) ==
    LET p == FirstHit(pre, 1, start_time)
        s == FirstHit(stim, 1, start_time)
        q == FirstHit(post, 1, start_time)
    IN  IF p # 0 THEN <<"Pre-Stim", pre[p][3]>>
        ELSE IF s # 0 THEN <<"Stim", stim[s][3]>>
        ELSE IF q # 0 THEN <<"Post-Stim", post[q][3]>>
        ELSE <<"Unknown", None>>

AllEpochs == pre_stim_epochs \o stim_epochs \o post_stim_epochs

Boundaries == {AllEpochs[k][1] : k \in 1..Len(AllEpochs)} \cup {AllEpochs[k][2] : k \in 1..Len(AllEpochs)}

\* wave start times: every epoch boundary and the seconds next to it
WaveStarts == UNION {{b - 1, b, b + 1} : b \in Boundaries}

\* wave_classification.py lines 138-144: one row of df['Start'].apply(classify_wave_time)
ClassifyWave ==
    /\ pc = "segmented"
    /\ \E start_time \in WaveStarts :
          LET res == classify_wave_time(start_time, pre_stim_epochs, stim_epochs, post_stim_epochs)
          IN  wave' = [Start |-> start_time, Classification |-> res[1], Protocol |-> res[2]]
    /\ pc' = "classified"
    /\ UNCHANGED <<annotations, run, first_cleaned, validator_vars, segmenter_vars, classifier_vars, filter_vars>>

\* the epochs of one protocol, as the lists classify_wave_time takes
EpochsOfProtocol(epochs, protocol) == SelectSeq(epochs, LAMBDA e : e[3] = protocol)

\* the classified wave is classified again against the three epochs of its protocol alone
ReclassifyWave ==
    /\ pc = "classified"
    /\ wave.Classification # "Unknown"
    /\ LET res == classify_wave_time(wave.Start,
                                  EpochsOfProtocol(pre_stim_epochs, wave.Protocol),
                                  EpochsOfProtocol(stim_epochs, wave.Protocol),
                                  EpochsOfProtocol(post_stim_epochs, wave.Protocol))
       IN  rewave' = [Start |-> wave.Start, Classification |-> res[1], Protocol |-> res[2]]
    /\ pc' = "reclassified"
    /\ UNCHANGED <<annotations, run, first_cleaned, validator_vars, segmenter_vars, wave,
                   region_vars, table_vars, filter_vars>>

(***************************************************************************)
(* wave_classification.classify_wave_region                                *)
(***************************************************************************)
\* most regions in a region map
MaxRegions == 2

RegionNames == {"Left Frontal", "Right Frontal", "Parietal", "Occipital"}

\* the channels of the docstring's map and one channel no map lists
Channels == {"E032", "E025", "E084", "E999"}

\* the lists of channel groups a region may have
ChannelGroupLists ==
    {<<>>, <<{"E032"}>>, <<{"E032", "E025"}>>, <<{"E025"}, {"E084"}>>}

\* region maps: a JSON object keeps its keys distinct and in file order
RegionMaps ==
    UNION {{m \in [1..n -> RegionNames \X ChannelGroupLists] :
                \A a, b \in 1..n : a # b => m[a][1] # m[b][1]} : n \in 0..MaxRegions}

\* lines 97-98: some channel group of the region lists the channel
InSomeGroup(list_of_channel_groups, ch) ==
    \E g \in 1..Len(list_of_channel_groups) : ch \in list_of_channel_groups[g]

\* line 96: index of the first region of the map, from k on, that lists the channel; 0 if none
RECURSIVE FirstListing(_, _, _)
FirstListing(data, k, ch) ==
    IF k > Len(data) THEN 0
    ELSE IF InSomeGroup(data[k][2], ch) THEN k
    ELSE FirstListing(data, k + 1, ch)

\* a labelling that returns the region name as the map spells it
RegionLabelVerbatim(region_name) == region_name

\* lines 99-107
RegionLabel(region_name) ==
    IF region_name = "Left Frontal" THEN "L_frontal"
    ELSE IF region_name = "Right Frontal" THEN "R_frontal"
    ELSE IF region_name = "Parietal" THEN "Posterior"
    ELSE "Unclassified"

\* lines 96-113
classify_wave_region(ch, data) ==
    LET r == FirstListing(data, 1, ch)
    IN  IF r = 0 THEN "Unclassified" ELSE RegionLabel(data[r][1])

\* line 149: one row of df['Channel'].apply(classify_wave_region)
ClassifyRegion ==
    /\ pc = "classify_region"
    /\ region' = classify_wave_region(channel, net_seg_data)
    /\ pc' = "region_classified"
    /\ UNCHANGED <<annotations, run, first_cleaned, validator_vars, segmenter_vars, wave,
                   rewave, net_seg_data, channel, table_vars, filter_vars>>

(***************************************************************************)
(* wave_classification.classify_and_filter_waves                           *)
(***************************************************************************)
\* most rows of a wave table of mixed waves
MaxRows == 3
\* most rows of a wave table whose waves all start in one stim epoch
MaxBurst == 10

Wave(start, peak, ch) == [Start |-> start, End |-> start + 1, ValNegPeak |-> peak, Channel |-> ch]

\* detected waves: before, inside and after the protocols of the examples, on
\* channels the map lists and on one it does not
WavePool ==
    {Wave(50, -80, "E032"), Wave(60, -50, "E999"), Wave(150, -80, "E025"),
     Wave(700, -50, "E084"), Wave(2000, -80, "E032")}

\* tables of distinct waves of the pool, in any row order
MixedTables ==
    UNION {{t \in [1..n -> WavePool] : \A a, b \in 1..n : a # b => t[a] # t[b]} : n \in 0..MaxRows}

\* tables of n waves, one second apart in time order, all in the first stim epoch of the examples
BurstTables == {[k \in 1..n |-> Wave(110 + k, -60, "E032")] : n \in 1..MaxBurst}

WaveTables == MixedTables \cup BurstTables

\* the map of the docstring of classify_wave_region
DocstringMap ==
    <<<<"Left Frontal", <<{"E032"}>>>>, <<"Right Frontal", <<{"E025"}>>>>, <<"Parietal", <<{"E084"}>>>>>>

\* lines 138-151: the row with the three classification columns
ClassifiedRow(w, pre, stim, post, data) ==
    LET res == classify_wave_time(w.Start, pre, stim, post)
    IN  [Start |-> w.Start, End |-> w.End, ValNegPeak |-> w.ValNegPeak, Channel |-> w.Channel,
         Classification |-> res[1], Protocol_Number |-> res[2],
         Region_Classification |-> classify_wave_region(w.Channel, data)]

\* a filter that drops the waves of unmapped channels as well
KeepRowMapped(r) == r.Classification # "Unknown" /\ r.Region_Classification # "Unclassified"

\* line 156
KeepRow(r) == r.Classification # "Unknown"

\* lines 162-164: .str.lower().str.replace(' ', '-')
LowerHyphen(label) ==
    IF label = "Pre-Stim" THEN "pre-stim"
    ELSE IF label = "Stim" THEN "stim"
    ELSE IF label = "Post-Stim" THEN "post-stim"
    ELSE "unknown"

\* astype(str) of a positive integer: its decimal digits
RECURSIVE AsStr(_)
AsStr(n) == IF n < 10 THEN <<n>> ELSE Append(AsStr(n \div 10), n % 10)

\* line 168: groupby(['Protocol Number', 'Classification']).cumcount() of row k
CumCount(rows, k) ==
    Cardinality({j \in 1..(k - 1) :
                    /\ rows[j].Protocol_Number = rows[k].Protocol_Number
                    /\ rows[j].Classification = rows[k].Classification})

\* lines 165-169: 'proto' + protocol + '_' + classification + '_sw' + count, kept in its parts
SlowWaveName(rows, k) ==
    [proto |-> AsStr(rows[k].Protocol_Number),
     phase |-> LowerHyphen(rows[k].Classification),
     sw |-> AsStr(CumCount(rows, k) + 1)]

\* lines 162-169: the filtered rows with lower-case classification and name
NamedRows(rows) ==
    [k \in 1..Len(rows) |->
        [Start |-> rows[k].Start, End |-> rows[k].End, ValNegPeak |-> rows[k].ValNegPeak,
         Channel |-> rows[k].Channel,
         Classification |-> LowerHyphen(rows[k].Classification),
         Protocol_Number |-> rows[k].Protocol_Number,
         Region_Classification |-> rows[k].Region_Classification,
         Slow_Wave_Name |-> SlowWaveName(rows, k)]]

\* string order of two digit strings: by the first differing character, a proper prefix first
RECURSIVE StrLess(_, _)
StrLess(a, b) ==
    IF b = <<>> THEN FALSE
    ELSE IF a = <<>> THEN TRUE
    ELSE IF Head(a) # Head(b) THEN Head(a) < Head(b)
    ELSE StrLess(Tail(a), Tail(b))

\* an order of names by the number they end in
NameLessNumeric(a, b) ==
    IF Len(a.sw) # Len(b.sw) THEN Len(a.sw) < Len(b.sw) ELSE StrLess(a.sw, b.sw)

\* line 179: order of two names of rows of equal protocol and classification;
\* such names are equal up to 'sw', so the digits after it decide
NameLess(a, b) == StrLess(a.sw, b.sw)

\* lines 173-178: the categorical order
CategoryRank(classification) ==
    IF classification = "pre-stim" THEN 1
    ELSE IF classification = "stim" THEN 2
    ELSE 3

\* line 179: by=['Protocol Number', 'Classification', 'Slow_Wave_Name']
RowLess(a, b) ==
    IF a.Protocol_Number # b.Protocol_Number THEN a.Protocol_Number < b.Protocol_Number
    ELSE IF a.Classification # b.Classification
         THEN CategoryRank(a.Classification) < CategoryRank(b.Classification)
    ELSE NameLess(a.Slow_Wave_Name, b.Slow_Wave_Name)

RECURSIVE InsertRow(_, _)
InsertRow(sorted, r) ==
    IF sorted = <<>> THEN <<r>>
    ELSE IF RowLess(r, sorted[Len(sorted)])
         THEN Append(InsertRow(SubSeq(sorted, 1, Len(sorted) - 1), r), sorted[Len(sorted)])
    ELSE Append(sorted, r)

RECURSIVE SortRowsFirst(_, _)
SortRowsFirst(rows, n) ==
    IF n = 0 THEN <<>> ELSE InsertRow(SortRowsFirst(rows, n - 1), rows[n])

\* line 179: sort_values(...).reset_index(drop=True)
SortRows(rows) == SortRowsFirst(rows, Len(rows))

\* lines 116-187; zip(*...) of an empty table yields nothing to unpack and raises ValueError
ClassifyAndFilterWaves ==
    /\ pc = "segmented"
    /\ IF df = <<>>
       THEN /\ pc' = "ValueError"
            /\ UNCHANGED <<df, df_sorted>>
       ELSE /\ df' = [k \in 1..Len(df) |->
                         ClassifiedRow(df[k], pre_stim_epochs, stim_epochs, post_stim_epochs,
                                       net_seg_data)]
            /\ df_sorted' = SortRows(NamedRows(SelectSeq(df', KeepRow)))
            /\ pc' = "sorted"
    /\ UNCHANGED <<annotations, run, first_cleaned, validator_vars, segmenter_vars, wave,
                   rewave, region_vars, filter_vars>>

(***************************************************************************)
(* wave_filtering.filter_and_save_epochs, filter_epochs                    *)
(***************************************************************************)
\* most rows of a table given to filter_epochs
MaxWaves == 3

\* window sizes in half seconds: 0.5 s and 1.0 s of the configurations, and 2.0 s
WindowSizes == {1, 2, 4}

Row(start, end, peak) == [Start |-> start, End |-> end, ValNegPeak |-> peak]

\* the columns of a row that filter_epochs reads, in seconds: waves of one
\* second at every second, with either peak, and one wave of three seconds
FilterPool ==
    {Row(s, s + 1, p) : s \in {0, 1, 2, 3}, p \in {-80, -50}} \cup {Row(0, 3, -50)}

\* tables of rows in any order
FilterTables == UNION {[1..n -> FilterPool] : n \in 0..MaxWaves}

\* -inf, the value of last_end_time before any window was opened
NegInf == [finite |-> FALSE, value |-> 0]

\* a test that also opens a window at exactly the reference plus the window
OpensWindowInclusive(start_time, last, window) ==
    IF last.finite THEN 2 * start_time >= 2 * last.value + window ELSE TRUE

\* line 91: start_time > last_end_time + window_size, the window in half seconds
OpensWindow(start_time, last, window) ==
    IF last.finite THEN 2 * start_time > 2 * last.value + window ELSE TRUE

\* a reference taken from the start of the wave that opens the window
StartOfOpener(row) == [finite |-> TRUE, value |-> row.Start]

\* line 101: last_end_time = end_time
EndOfOpener(row) == [finite |-> TRUE, value |-> row.End]

\* a scan that keeps the last of equal minima
RECURSIVE LastMinIndexFrom(_, _, _)
LastMinIndexFrom(window, k, best) ==
    IF k > Len(window) THEN best
    ELSE IF window[k].ValNegPeak <= window[best].ValNegPeak
         THEN LastMinIndexFrom(window, k + 1, k)
    ELSE LastMinIndexFrom(window, k + 1, best)

\* lines 94, 110: min(current_window, key=ValNegPeak) keeps the first of equal minima
RECURSIVE MinIndexFrom(_, _, _)
MinIndexFrom(window, k, best) ==
    IF k > Len(window) THEN best
    ELSE IF window[k].ValNegPeak < window[best].ValNegPeak
         THEN MinIndexFrom(window, k + 1, k)
    ELSE MinIndexFrom(window, k + 1, best)

\* a selection that, when the first wave is asked for, takes the last
SelectedWaveLast(window, most_negative) ==
    IF most_negative THEN window[MinIndexFrom(window, 1, 1)] ELSE window[Len(window)]

\* lines 93-98 and 109-114
SelectedWave(window, most_negative) ==
    IF most_negative THEN window[MinIndexFrom(window, 1, 1)] ELSE window[1]

\* a resolution that keeps every wave of the window
ResolvedKeepAll(list, window, most_negative) == list \o window

\* lines 92-99 and 108-115: the list after the window, if it has waves, is resolved
Resolved(list, window, most_negative) ==
    IF window # <<>> THEN Append(list, SelectedWave(window, most_negative)) ELSE list

\* wave_filtering.py lines 35-40 and 81-83: filter_epochs is called with one configuration
FilterBegin ==
    /\ pc = "sorted"
    /\ window_size' \in WindowSizes
    /\ pick_most_negative' \in BOOLEAN
    /\ row_index' = 0
    /\ filtered_epochs_list' = <<>>
    /\ last_end_time' = NegInf
    /\ current_window' = <<>>
    /\ pc' = "filter"
    /\ UNCHANGED <<annotations, run, first_cleaned, validator_vars, segmenter_vars, wave,
                   classifier_vars, filtered_files>>

\* lines 85-105: one iteration of the loop over the rows
FilterStep ==
    /\ pc = "filter"
    /\ row_index < Len(df_sorted)
    /\ LET row == df_sorted[row_index + 1] IN
       IF OpensWindow(row.Start, last_end_time, window_size)
       THEN /\ filtered_epochs_list' =
                   Resolved(filtered_epochs_list, current_window, pick_most_negative)
            /\ current_window' = <<row>>
            /\ last_end_time' = EndOfOpener(row)
       ELSE /\ current_window' = Append(current_window, row)
            /\ UNCHANGED <<filtered_epochs_list, last_end_time>>
    /\ row_index' = row_index + 1
    /\ UNCHANGED <<annotations, pc, run, first_cleaned, validator_vars, segmenter_vars, wave,
                   classifier_vars, window_size, pick_most_negative, filtered_files>>

\* lines 107-120: the last window is resolved and the list returned
FilterFlush ==
    /\ pc = "filter"
    /\ row_index >= Len(df_sorted)
    /\ filtered_epochs_list' = Resolved(filtered_epochs_list, current_window, pick_most_negative)
    /\ pc' = "filtered"
    /\ UNCHANGED <<annotations, run, first_cleaned, validator_vars, segmenter_vars, wave,
                   classifier_vars, window_size, pick_most_negative, row_index,
                   last_end_time, current_window, filtered_files>>

\* line 55: the output of a call, kept with its configuration
FilteredFile ==
    [window_size |-> window_size,
     pick_most_negative |-> pick_most_negative,
     filtered_epochs_df |-> filtered_epochs_list]

\* lines 26-31, 35-40 and 55: the configurations come in pairs; after the call
\* that picks the first wave, the output is kept and filter_epochs is called on
\* the same table with the same window, picking the most negative wave
NextConfiguration ==
    /\ pc = "filtered"
    /\ filtered_files = <<>>
    /\ ~pick_most_negative
    /\ filtered_files' = <<FilteredFile>>
    /\ pick_most_negative' = TRUE
    /\ row_index' = 0
    /\ filtered_epochs_list' = <<>>
    /\ last_end_time' = NegInf
    /\ current_window' = <<>>
    /\ pc' = "filter"
    /\ UNCHANGED <<annotations, run, first_cleaned, validator_vars, segmenter_vars, wave,
                   classifier_vars, window_size>>

\* lines 66-83: filter_epochs, picking the first wave, is called on the table it
\* returned, with the same window
FilterOwnOutput ==
    /\ pc = "filtered"
    /\ filtered_files = <<>>
    /\ ~pick_most_negative
    /\ filtered_files' = <<FilteredFile>>
    /\ df_sorted' = filtered_epochs_list
    /\ row_index' = 0
    /\ filtered_epochs_list' = <<>>
    /\ last_end_time' = NegInf
    /\ current_window' = <<>>
    /\ pc' = "filter"
    /\ UNCHANGED <<annotations, run, first_cleaned, validator_vars, segmenter_vars, wave,
                   rewave, region_vars, df, window_size, pick_most_negative>>

(***************************************************************************)
(* Initial states                                                          *)
(***************************************************************************)
NoWave == [Start |-> 0, Classification |-> "none", Protocol |-> 0]

\* the validator and the segmenter before clean_events is called
PipelineAtStart ==
    /\ run = 1
    /\ first_cleaned = <<>>
    /\ stim_events = <<>>
    /\ i = 0
    /\ expected_event = "stim start"
    /\ stim_start_event = Unbound
    /\ cleaned_events = <<>>
    /\ omitted_events = <<>>
    /\ cleaned_events_df = <<>>
    /\ protocol_number = 1
    /\ prev_post_stim_end = 0
    /\ pre_stim_epochs = <<>>
    /\ stim_epochs = <<>>
    /\ post_stim_epochs = <<>>
    /\ original_pre_stim_epochs = <<>>
    /\ original_post_stim_epochs = <<>>
    /\ overlaps = <<>>
    /\ rewave = NoWave

\* no region classification is under way
NoRegion ==
    /\ net_seg_data = <<>>
    /\ channel = "none"
    /\ region = "none"

\* no wave table is under way
NoTable ==
    /\ df = <<>>
    /\ df_sorted = <<>>

\* filter_epochs has not been called
NoFilter ==
    /\ window_size = 1
    /\ pick_most_negative = FALSE
    /\ row_index = 0
    /\ filtered_epochs_list = <<>>
    /\ last_end_time = NegInf
    /\ current_window = <<>>
    /\ filtered_files = <<>>

Init ==
    /\ annotations \in Streams
    /\ pc = "start"
    /\ PipelineAtStart
    /\ wave = NoWave
    /\ NoRegion
    /\ NoTable
    /\ NoFilter

\* a wave with any time classification, a region map and a channel
InitRegion ==
    /\ annotations = <<>>
    /\ pc = "classify_region"
    /\ PipelineAtStart
    /\ \E c \in {"Pre-Stim", "Stim", "Post-Stim", "Unknown"} :
          wave = [Start |-> 0, Classification |-> c,
                  Protocol |-> IF c = "Unknown" THEN None ELSE 1]
    /\ net_seg_data \in RegionMaps
    /\ channel \in Channels
    /\ region = "none"
    /\ NoTable
    /\ NoFilter

Next ==
    \/ CleanBegin
    \/ CleanStep
    \/ CleanReturn
    \/ Revalidate
    \/ SegmentBegin
    \/ SegmentStep
    \/ SegmentReturn
    \/ ClassifyWave
    \/ ReclassifyWave

Spec == Init /\ [][Next]_vars

\* a wave table, the region map and the events of one of the examples
InitTable ==
    /\ annotations \in {ExampleNoOverlap, ExampleOverlap}
    /\ pc = "start"
    /\ PipelineAtStart
    /\ wave = NoWave
    /\ net_seg_data = DocstringMap
    /\ channel = "none"
    /\ region = "none"
    /\ df \in WaveTables
    /\ df_sorted = <<>>
    /\ NoFilter

NextTable ==
    \/ CleanBegin
    \/ CleanStep
    \/ CleanReturn
    \/ SegmentBegin
    \/ SegmentStep
    \/ SegmentReturn
    \/ ClassifyAndFilterWaves

SpecTable == InitTable /\ [][NextTable]_vars

\* a classified table handed to filter_and_save_epochs
InitFilter ==
    /\ annotations = <<>>
    /\ pc = "sorted"
    /\ PipelineAtStart
    /\ wave = NoWave
    /\ NoRegion
    /\ df = <<>>
    /\ df_sorted \in FilterTables
    /\ NoFilter

NextFilter ==
    \/ FilterBegin
    \/ FilterStep
    \/ FilterFlush
    \/ NextConfiguration
    \/ FilterOwnOutput

SpecFilter == InitFilter /\ [][NextFilter]_vars

NextRegion == ClassifyRegion

SpecRegion == InitRegion /\ [][NextRegion]_vars

(***************************************************************************)
(* Properties                                                              *)
(***************************************************************************)
Segmented == pc \in {"segmented", "classified", "reclassified"}

NumProtocols == Len(stim_epochs)

\* the accepted pairs of the validator, as <<start row, end row>>
AcceptedPair(rows, k) == <<rows[2 * k - 1], rows[2 * k]>>

\* a 'stim start' is the next event while the validator expects an end
StartWhileExpectingEnd ==
    /\ pc = "clean"
    /\ i < Len(stim_events)
    /\ expected_event = "stim end"
    /\ stim_events[i + 1].Description = "stim start"

\* C1 as claimed: a 'stim start' met while an end is expected is rejected as
\* unexpected and the validator stays in the expecting-end state with the
\* original start still buffered.
C1_StaysExpectingEnd ==
    [][StartWhileExpectingEnd =>
          /\ omitted_events' = Append(omitted_events, UnexpectedRecord(stim_events[i + 1]))
          /\ expected_event' = "stim end"
          /\ stim_start_event' = stim_start_event]_vars

\* C1 as amended: a 'stim start' met while an end is expected is rejected as
\* unexpected and the validator goes back to expecting a start; nothing is
\* accepted or logged for the buffered start, and it is never paired later:
\* every accepted pair is a start and the end that directly follows it in the
\* filtered stream.
C1_ResetsToExpectingStart ==
    /\ [][StartWhileExpectingEnd =>
            /\ omitted_events' = Append(omitted_events, UnexpectedRecord(stim_events[i + 1]))
            /\ expected_event' = "stim start"
            /\ cleaned_events' = cleaned_events]_vars
    /\ [](\A k \in 1..(Len(cleaned_events) \div 2) :
             AcceptedPair(cleaned_events, k)[2].name = AcceptedPair(cleaned_events, k)[1].name + 1)

\* start, start, end with the end in range of the first start: both the second
\* start and the end are rejected, nothing is accepted
C1_Witness ==
    /\ pc = "cleaned"
    /\ run = 1
    /\ Len(stim_events) = 3
    /\ stim_events[1].Description = "stim start"
    /\ stim_events[2].Description = "stim start"
    /\ stim_events[3].Description = "stim end"
    /\ stim_events[3].Onset - stim_events[1].Onset >= min_duration
    /\ stim_events[3].Onset - stim_events[1].Onset <= max_duration
    /\ cleaned_events = <<>>
    /\ omitted_events = <<UnexpectedRecord(stim_events[2]), UnexpectedRecord(stim_events[3])>>

\* C2: every accepted pair is a start followed by an end whose duration
\* end.Onset - start.Onset lies in [min_duration, max_duration], so end > start.
C2_AcceptedDurationsInRange ==
    /\ Len(cleaned_events) % 2 = 0
    /\ \A k \in 1..(Len(cleaned_events) \div 2) :
          LET s == AcceptedPair(cleaned_events, k)[1]
              e == AcceptedPair(cleaned_events, k)[2]
          IN  /\ s.Description = "stim start"
              /\ e.Description = "stim end"
              /\ min_duration <= e.Onset - s.Onset
              /\ e.Onset - s.Onset <= max_duration
              /\ e.Onset > s.Onset

\* a pair of exactly min_duration was accepted and a pair above max_duration rejected
C2_Witness ==
    /\ pc = "cleaned"
    /\ \E k \in 1..(Len(cleaned_events) \div 2) :
          cleaned_events[2 * k].Onset - cleaned_events[2 * k - 1].Onset = min_duration
    /\ \E k \in 1..Len(omitted_events) :
          /\ omitted_events[k].reason[1] = "Invalid duration"
          /\ omitted_events[k].reason[2] > max_duration

\* C3: the accepted protocols are strictly ordered by start, protocol k ends no
\* later than protocol k+1 starts, and the segmenter numbers them 1..N in that
\* order: epoch k of each list carries id k and the k-th accepted pair's onsets.
C3_OrderedContiguousIds ==
    /\ \A k \in 1..(Len(cleaned_events) \div 2 - 1) :
          /\ cleaned_events[2 * k - 1].Onset < cleaned_events[2 * k + 1].Onset
          /\ cleaned_events[2 * k].Onset <= cleaned_events[2 * k + 1].Onset
    /\ \A k \in 1..NumProtocols :
          /\ pre_stim_epochs[k][3] = k
          /\ stim_epochs[k][3] = k
          /\ post_stim_epochs[k][3] = k
          /\ stim_epochs[k][1] = cleaned_events[2 * k - 1].Onset
          /\ stim_epochs[k][2] = cleaned_events[2 * k].Onset
    /\ \A k \in 1..(NumProtocols - 1) :
          /\ stim_epochs[k][1] < stim_epochs[k + 1][1]
          /\ stim_epochs[k][2] <= stim_epochs[k + 1][1]
    /\ Segmented => NumProtocols = Len(cleaned_events) \div 2

\* two protocols were numbered with a rejected pair between them
C3_Witness ==
    /\ pc = "segmented"
    /\ NumProtocols >= 2
    /\ cleaned_events[3].name > cleaned_events[2].name + 1
    /\ omitted_events # <<>>

\* C4: validating the accepted events again accepts exactly the same events
\* and rejects nothing.
C4_Idempotent ==
    pc = "recleaned" =>
        /\ AsAnnotations(cleaned_events) = AsAnnotations(first_cleaned)
        /\ omitted_events = <<>>

\* the second run ended on two accepted pairs that the first run picked out of
\* a stream with rejected events
C4_Witness ==
    /\ pc = "recleaned"
    /\ Len(first_cleaned) >= 4
    /\ \E k \in 1..Len(first_cleaned) : first_cleaned[k].name # k - 1

\* C5: for every recorded overlap between protocols k-1 and k, the adjusted
\* Post[k-1].end is at most the adjusted Pre[k].start.
C5_NoResidualOverlap ==
    Segmented =>
        \A r \in 1..Len(overlaps) :
            LET a == overlaps[r].protocols[1]
                b == overlaps[r].protocols[2]
            IN  a >= 1 => post_stim_epochs[a][2] <= pre_stim_epochs[b][1]

\* C6: no emitted epoch ends before it starts.
C6_NoNegativeDuration ==
    \A k \in 1..Len(AllEpochs) : AllEpochs[k][1] <= AllEpochs[k][2]

\* a post-stim epoch was clamped to zero duration
C6_Witness ==
    /\ Segmented
    /\ overlaps # <<>>
    /\ \E k \in 1..Len(post_stim_epochs) :
          /\ post_stim_epochs[k][1] = post_stim_epochs[k][2]
          /\ original_post_stim_epochs[k][2] > original_post_stim_epochs[k][1]

\* every epoch equals its nominal window and nothing was logged
AllNominal ==
    /\ pre_stim_epochs = original_pre_stim_epochs
    /\ post_stim_epochs = original_post_stim_epochs
    /\ \A k \in 1..NumProtocols :
          /\ original_pre_stim_epochs[k] =
                 <<2 * stim_epochs[k][1] - stim_epochs[k][2], stim_epochs[k][1], k>>
          /\ original_post_stim_epochs[k] =
                 <<stim_epochs[k][2], 2 * stim_epochs[k][2] - stim_epochs[k][1], k>>
    /\ overlaps = <<>>

\* no nominal pre-stim window starts before the previous nominal post-stim end
NoNominalOverlap ==
    \A k \in 2..NumProtocols :
        original_pre_stim_epochs[k][1] >= original_post_stim_epochs[k - 1][2]

\* C7 as claimed: the example yields Pre[1]=(-80,100), During[1]=(100,280),
\* Post[1]=(280,460), Pre[2]=(460,640) and an empty overlap log; and whenever no
\* nominal pre-stim window starts before the previous protocol's nominal
\* post-stim end, every epoch equals its nominal window and the log is empty.
C7_NominalWhenNoOverlap ==
    Segmented =>
        /\ annotations = ExampleNoOverlap =>
              /\ pre_stim_epochs[1] = <<-80, 100, 1>>
              /\ stim_epochs[1] = <<100, 280, 1>>
              /\ post_stim_epochs[1] = <<280, 460, 1>>
              /\ pre_stim_epochs[2] = <<460, 640, 2>>
              /\ overlaps = <<>>
        /\ NoNominalOverlap => AllNominal

\* C7 as amended: the first protocol's nominal pre-stim start is compared with
\* time 0.  The example starts 80 s before 0, so an overlap of 80 is logged
\* for protocols (0, 1) and Pre[1] is (-40, 100); the other epochs are nominal.
\* Whenever the first nominal pre-stim window does not start before 0 and no
\* later one starts before the previous nominal post-stim end, every epoch
\* equals its nominal window and the log is empty.
C7_NominalWhenNoOverlapSinceZero ==
    Segmented =>
        /\ annotations = ExampleNoOverlap =>
              /\ pre_stim_epochs[1] = <<-40, 100, 1>>
              /\ stim_epochs[1] = <<100, 280, 1>>
              /\ post_stim_epochs[1] = <<280, 460, 1>>
              /\ pre_stim_epochs[2] = <<460, 640, 2>>
              /\ overlaps = <<OverlapRecord(1, 80, -80)>>
        /\ (original_pre_stim_epochs[1][1] >= 0 /\ NoNominalOverlap) => AllNominal

\* two protocols far enough from 0 and from each other
C7_Witness ==
    /\ pc = "segmented"
    /\ NumProtocols >= 2
    /\ original_pre_stim_epochs[1][1] >= 0
    /\ NoNominalOverlap
    /\ overlaps = <<>>

\* C8: when the nominal Pre[k].start lies before the nominal Post[k-1].end by
\* overlap > 0 and neither clamp triggers (overlap / 2 exceeds neither
\* duration), Post[k-1].end is reduced and Pre[k].start increased by exactly
\* overlap / 2, and they meet; in the example both become 455.
C8_EqualSplit ==
    /\ \A k \in 2..Len(pre_stim_epochs) :
          LET overlap == original_post_stim_epochs[k - 1][2] - original_pre_stim_epochs[k][1]
              prev_duration == original_post_stim_epochs[k - 1][2] - original_post_stim_epochs[k - 1][1]
              duration == original_pre_stim_epochs[k][2] - original_pre_stim_epochs[k][1]
          IN  (overlap > 0 /\ overlap <= 2 * prev_duration /\ overlap <= 2 * duration) =>
                  /\ 2 * (original_post_stim_epochs[k - 1][2] - post_stim_epochs[k - 1][2]) = overlap
                  /\ 2 * (pre_stim_epochs[k][1] - original_pre_stim_epochs[k][1]) = overlap
                  /\ post_stim_epochs[k - 1][2] = pre_stim_epochs[k][1]
    /\ (Segmented /\ annotations = ExampleOverlap) =>
          /\ original_post_stim_epochs[1][2] = 460
          /\ original_pre_stim_epochs[2][1] = 450
          /\ post_stim_epochs[1][2] = 455
          /\ pre_stim_epochs[2][1] = 455

\* the example with an overlap of 10 between protocols 1 and 2 was segmented
C8_Witness ==
    /\ pc = "segmented"
    /\ annotations = ExampleOverlap
    /\ \E r \in 1..Len(overlaps) :
          overlaps[r].protocols = <<1, 2>> /\ overlaps[r].overlap_amount = 10

\* the epoch list of a classification label
EpochsOf(label) ==
    IF label = "Pre-Stim" THEN pre_stim_epochs
    ELSE IF label = "Stim" THEN stim_epochs
    ELSE post_stim_epochs

Contains(epoch, t) == epoch[1] <= t /\ t <= epoch[2]

\* C9: a wave classified (phase, protocol) starts within [start, end] of the
\* epoch of that phase and protocol, and a wave is Unknown (with no protocol)
\* exactly when no epoch of any phase and protocol contains its start.
C9_SoundAndComplete ==
    pc \in {"classified", "reclassified"} =>
        /\ wave.Classification \in {"Pre-Stim", "Stim", "Post-Stim", "Unknown"}
        /\ wave.Classification # "Unknown" =>
              \E k \in 1..Len(EpochsOf(wave.Classification)) :
                  /\ EpochsOf(wave.Classification)[k][3] = wave.Protocol
                  /\ Contains(EpochsOf(wave.Classification)[k], wave.Start)
        /\ wave.Classification = "Unknown" <=>
              \A k \in 1..Len(AllEpochs) : ~Contains(AllEpochs[k], wave.Start)
        /\ wave.Classification = "Unknown" => wave.Protocol = None

\* a wave that starts on the last second of the second protocol's post-stim epoch
C9_Witness ==
    /\ pc = "classified"
    /\ NumProtocols >= 2
    /\ wave.Classification = "Post-Stim"
    /\ wave.Protocol = 2
    /\ wave.Start = post_stim_epochs[2][2]

\* the epochs, of all phases and protocols, that contain t
EpochsContaining(t) ==
    {<<label, k>> \in {"Pre-Stim", "Stim", "Post-Stim"} \X (1..NumProtocols) :
        Contains(EpochsOf(label)[k], t)}

ScanRank(label) == IF label = "Pre-Stim" THEN 1 ELSE IF label = "Stim" THEN 2 ELSE 3

\* C10 as claimed: the recorded epoch is the only epoch, over all phases and
\* protocols, that contains the wave's start.
C10_OnlyOneEpochContains ==
    (pc \in {"classified", "reclassified"} /\ wave.Classification # "Unknown") =>
        EpochsContaining(wave.Start) = {<<wave.Classification, wave.Protocol>>}

\* C10 as amended: the recorded epoch contains the wave's start and is the first
\* such epoch in scan order (pre-stim epochs by protocol, then stim, then
\* post-stim); epochs later in that order may contain the start as well.
C10_FirstEpochInScanOrder ==
    (pc \in {"classified", "reclassified"} /\ wave.Classification # "Unknown") =>
        /\ <<wave.Classification, wave.Protocol>> \in EpochsContaining(wave.Start)
        /\ \A e \in EpochsContaining(wave.Start) :
              \/ ScanRank(e[1]) > ScanRank(wave.Classification)
              \/ ScanRank(e[1]) = ScanRank(wave.Classification) /\ e[2] >= wave.Protocol

\* a wave that starts where a stim epoch starts, inside two epochs, recorded as pre-stim
C10_Witness ==
    /\ pc = "classified"
    /\ wave.Classification = "Pre-Stim"
    /\ wave.Start = stim_epochs[wave.Protocol][1]
    /\ Cardinality(EpochsContaining(wave.Start)) >= 2
\* C11: a wave classified (phase, p) against all epochs gets the same phase and
\* the same protocol p when it is classified against the Pre, During and Post
\* epochs of protocol p alone.
C11_RoundTrip ==
    pc = "reclassified" =>
        /\ rewave.Classification = wave.Classification
        /\ rewave.Protocol = wave.Protocol

\* a wave of the second protocol's stim epoch, on the boundary it shares with the
\* post-stim epoch, was classified again
C11_Witness ==
    /\ pc = "reclassified"
    /\ wave.Protocol = 2
    /\ wave.Classification = "Stim"
    /\ wave.Start = post_stim_epochs[2][1]
    /\ rewave.Classification = "Stim"

\* the regions of the map that list the channel
ListingRegions == {r \in 1..Len(net_seg_data) :
                      \E g \in 1..Len(net_seg_data[r][2]) : channel \in net_seg_data[r][2][g]}

\* the label names the region: the region name itself or its short form
NamesRegion(label, region_name) ==
    \/ label = region_name
    \/ <<region_name, label>> \in {<<"Left Frontal", "L_frontal">>,
                                   <<"Right Frontal", "R_frontal">>,
                                   <<"Parietal", "Posterior">>}

\* C12 as claimed: a wave whose channel is listed under some region of the map
\* is assigned a region that lists it, and it is 'Unclassified' only when its
\* channel appears under no region.
C12_UnclassifiedOnlyWhenUnlisted ==
    pc = "region_classified" =>
        /\ ListingRegions # {} =>
              \E r \in ListingRegions : NamesRegion(region, net_seg_data[r][1])
        /\ region = "Unclassified" => ListingRegions = {}

\* C12 as amended: the wave gets the label of the first region, in map order,
\* that lists its channel: L_frontal for 'Left Frontal', R_frontal for 'Right
\* Frontal', Posterior for 'Parietal' and 'Unclassified' for a region of any
\* other name; it is 'Unclassified' as well when no region lists the channel.
\* The label is the same for every time classification of the wave, which the
\* region classification leaves as it was.
C12_LabelOfFirstListingRegion ==
    /\ [](pc = "region_classified" =>
             IF ListingRegions = {}
             THEN region = "Unclassified"
             ELSE LET first == CHOOSE r \in ListingRegions : \A q \in ListingRegions : r <= q
                      region_name == net_seg_data[first][1]
                  IN  /\ region_name = "Left Frontal" => region = "L_frontal"
                      /\ region_name = "Right Frontal" => region = "R_frontal"
                      /\ region_name = "Parietal" => region = "Posterior"
                      /\ region_name = "Occipital" => region = "Unclassified")
    /\ [][wave' = wave]_<<wave, region>>

\* a Stim wave on a channel that an 'Occipital' region lists before 'Left Frontal' does
C12_Witness ==
    /\ pc = "region_classified"
    /\ wave.Classification = "Stim"
    /\ Cardinality(ListingRegions) = 2
    /\ net_seg_data[1][1] = "Occipital"
    /\ net_seg_data[2][1] = "Left Frontal"
    /\ region = "Unclassified"

\* the rows of the input table whose start some epoch contains
KnownRows ==
    {k \in 1..Len(df) : \E e \in 1..Len(AllEpochs) : Contains(AllEpochs[e], df[k].Start)}

\* the rows of the input table whose channel no region of the map lists
UnmappedRows ==
    {k \in 1..Len(df) :
        \A r \in 1..Len(net_seg_data) :
            \A g \in 1..Len(net_seg_data[r][2]) : df[k].Channel \notin net_seg_data[r][2][g]}

\* what tells one wave of a table from another
WaveKey(r) == <<r.Start, r.Channel>>

\* C13: the classified output holds exactly the input waves that some epoch
\* contains (output count + dropped count = input count), none of its waves is
\* Unknown, each has a protocol id, and a wave of an unmapped channel that some
\* epoch contains is in the output with region 'Unclassified'.
C13_DropsExactlyUnknown ==
    pc = "sorted" =>
        /\ {WaveKey(df_sorted[j]) : j \in 1..Len(df_sorted)} = {WaveKey(df[k]) : k \in KnownRows}
        /\ Len(df_sorted) = Cardinality(KnownRows)
        /\ Len(df_sorted) + Cardinality((1..Len(df)) \ KnownRows) = Len(df)
        /\ \A j \in 1..Len(df_sorted) :
              /\ df_sorted[j].Classification \in {"pre-stim", "stim", "post-stim"}
              /\ df_sorted[j].Protocol_Number \in 1..NumProtocols
        /\ \A k \in KnownRows \cap UnmappedRows :
              \E j \in 1..Len(df_sorted) :
                  /\ WaveKey(df_sorted[j]) = WaveKey(df[k])
                  /\ df_sorted[j].Region_Classification = "Unclassified"

\* of three waves one was outside every epoch and dropped, and one of the two
\* kept is on the unmapped channel
C13_Witness ==
    /\ pc = "sorted"
    /\ Len(df) = 3
    /\ Len(df_sorted) = 2
    /\ \E j \in 1..Len(df_sorted) :
          /\ df_sorted[j].Channel = "E999"
          /\ df_sorted[j].Region_Classification = "Unclassified"

\* the number a digit string spells
RECURSIVE AsNumber(_)
AsNumber(digits) ==
    IF digits = <<>> THEN 0
    ELSE 10 * AsNumber(SubSeq(digits, 1, Len(digits) - 1)) + digits[Len(digits)]

\* 1-based position of row j of the output among the rows of its protocol and phase
PositionInGroup(j) ==
    1 + Cardinality({q \in 1..(j - 1) :
                        /\ df_sorted[q].Protocol_Number = df_sorted[j].Protocol_Number
                        /\ df_sorted[q].Classification = df_sorted[j].Classification})

\* C14: in the sorted output every wave is named proto{id}_{phase}_sw{n} with id
\* its protocol, phase its classification and n its 1-based position among the
\* waves of its protocol and phase in output order, whatever the group's size.
C14_NameIsPositionInGroup ==
    pc = "sorted" =>
        \A j \in 1..Len(df_sorted) :
            /\ AsNumber(df_sorted[j].Slow_Wave_Name.proto) = df_sorted[j].Protocol_Number
            /\ df_sorted[j].Slow_Wave_Name.phase = df_sorted[j].Classification
            /\ AsNumber(df_sorted[j].Slow_Wave_Name.sw) = PositionInGroup(j)

\* C15: the table the classifier returns, which goes to the deduplicator as it
\* is, is ordered by non-decreasing Start.
C15_SortedByStart ==
    pc = "sorted" =>
        \A j \in 1..(Len(df_sorted) - 1) : df_sorted[j].Start <= df_sorted[j + 1].Start

\* the sweep is at a row
AtRow == pc = "filter" /\ row_index < Len(df_sorted)

\* the row opens a new group: its Start is strictly greater than the reference plus the window
StartsAfter(r, reference) ==
    ~reference.finite \/ 2 * r.Start > 2 * reference.value + window_size

\* a wave opens a new group exactly when its Start is strictly greater than
\* last_end_time + window_size, else it joins the open group
OpensExactlyWhenAfter ==
    AtRow =>
        IF StartsAfter(df_sorted[row_index + 1], last_end_time)
        THEN current_window' = <<df_sorted[row_index + 1]>>
        ELSE current_window' = Append(current_window, df_sorted[row_index + 1])

\* a group is resolved in this step: a wave is put out
Emits == pc = "filter" /\ filtered_epochs_list' # filtered_epochs_list

Emitted == filtered_epochs_list'[Len(filtered_epochs_list')]

C17_MostNegativeEarliest ==
    [][(Emits /\ pick_most_negative) =>
          \E k \in 1..Len(current_window) :
              /\ Emitted = current_window[k]
              /\ \A j \in 1..Len(current_window) :
                    current_window[j].ValNegPeak >= Emitted.ValNegPeak
              /\ \A j \in 1..(k - 1) :
                    current_window[j].ValNegPeak > Emitted.ValNegPeak]_vars

\* the last group held three waves, the second and third equally the most
\* negative, and the second was put out
C17_Witness ==
    /\ pc = "filtered"
    /\ pick_most_negative
    /\ Len(current_window) = 3
    /\ current_window[2].ValNegPeak < current_window[1].ValNegPeak
    /\ current_window[3].ValNegPeak = current_window[2].ValNegPeak
    /\ current_window[3] # current_window[2]
    /\ filtered_epochs_list[Len(filtered_epochs_list)] = current_window[2]

\* the table given to filter_epochs is ordered by Start
TimeOrdered ==
    \A j \in 1..(Len(df_sorted) - 1) : df_sorted[j].Start <= df_sorted[j + 1].Start

\* C18: for a time-ordered input, any two consecutive waves of the output have
\* Starts more than the window apart, under First and under MostNegativePeak.
C18_MinimumSpacing ==
    (pc = "filtered" /\ TimeOrdered) =>
        \A j \in 1..(Len(filtered_epochs_list) - 1) :
            2 * filtered_epochs_list[j + 1].Start >
                2 * filtered_epochs_list[j].Start + window_size

StimKinds == {"stim start", "stim end"}

\* the positions of the annotations that are protocol starts or ends
StimPositions == {k \in 1..Len(annotations) : annotations[k].Description \in StimKinds}

\* the position in the annotations of the j-th protocol start or end
StimPosition(j) ==
    CHOOSE k \in StimPositions : Cardinality({q \in StimPositions : q <= k}) = j

\* C19 as claimed: every annotation that is neither a protocol start nor a
\* protocol end is in the rejection log with reason 'Unexpected event'.
C19_OtherKindsLogged ==
    (pc = "cleaned" /\ run = 1) =>
        \A k \in (1..Len(annotations)) \ StimPositions :
            \E r \in 1..Len(omitted_events) :
                /\ omitted_events[r].reason[1] = "Unexpected event"
                /\ omitted_events[r].event_onset = annotations[k].Onset
                /\ omitted_events[r].event_description = annotations[k].Description

\* C19 as amended: an annotation that is neither a protocol start nor a protocol
\* end is removed before validation: the validated events are exactly the starts
\* and ends of the stream in their order, so such an event changes no state (a
\* start buffered before it stays buffered), and neither the rejection log nor
\* the accepted events ever hold an event of another kind.
C19_OtherKindsRemoved ==
    /\ pc # "start" =>
          /\ Len(stim_events) = Cardinality(StimPositions)
          /\ \A j \in 1..Len(stim_events) :
                /\ stim_events[j].Onset = annotations[StimPosition(j)].Onset
                /\ stim_events[j].Description = annotations[StimPosition(j)].Description
    /\ \A r \in 1..Len(omitted_events) :
          omitted_events[r].reason[1] = "Unexpected event" =>
              omitted_events[r].event_description \in StimKinds
    /\ \A k \in 1..Len(cleaned_events) : cleaned_events[k].Description \in StimKinds

\* a start, an event of another kind, and an end 180 s after the start: the
\* pair is accepted and nothing is logged
C19_Witness ==
    /\ pc = "cleaned"
    /\ run = 1
    /\ Len(annotations) = 3
    /\ annotations[1].Description = "stim start"
    /\ annotations[2].Description = "other"
    /\ annotations[3].Description = "stim end"
    /\ Len(cleaned_events) = 2
    /\ cleaned_events[1].Onset = annotations[1].Onset
    /\ cleaned_events[2].Onset = annotations[3].Onset
    /\ omitted_events = <<>>

\* C20: validating a stream with no events at all does not return an empty
\* accepted list and an empty rejection log: clean_events returns only for
\* streams that have events.
C20_EmptyStreamFails ==
    (pc = "cleaned" /\ run = 1) => annotations # <<>>

\* a 'stim end' is the next event while the validator expects a start
EndWhileExpectingStart ==
    /\ pc = "clean"
    /\ i < Len(stim_events)
    /\ expected_event = "stim start"
    /\ stim_events[i + 1].Description = "stim end"

\* C21: a 'stim end' met while a start is expected is written to the rejection
\* log as an unexpected event, nothing is added to the accepted events, and the
\* validator still expects a start.
C21_EndWhileExpectingStartRejected ==
    [][EndWhileExpectingStart =>
          /\ Len(omitted_events') = Len(omitted_events) + 1
          /\ SubSeq(omitted_events', 1, Len(omitted_events)) = omitted_events
          /\ omitted_events'[Len(omitted_events')] =
                 [event_index |-> stim_events[i + 1].name,
                  event_onset |-> stim_events[i + 1].Onset,
                  event_description |-> "stim end",
                  reason |-> <<"Unexpected event", "stim end">>]
          /\ cleaned_events' = cleaned_events
          /\ expected_event' = "stim start"]_vars

\* the stream began with an end, which was rejected, and the start and end that
\* followed it were accepted as a pair
C21_Witness ==
    /\ pc = "cleaned"
    /\ run = 1
    /\ Len(stim_events) = 3
    /\ stim_events[1].Description = "stim end"
    /\ Len(omitted_events) = 1
    /\ omitted_events[1].reason = <<"Unexpected event", "stim end">>
    /\ omitted_events[1].event_index = 0
    /\ Len(cleaned_events) = 2
    /\ cleaned_events[1].name = 1

\* a 'stim end' is the next event while a start is buffered, and the time
\* between them is below min_duration or above max_duration
EndOutOfRange ==
    /\ pc = "clean"
    /\ i < Len(stim_events)
    /\ expected_event = "stim end"
    /\ stim_events[i + 1].Description = "stim end"
    /\ \/ stim_events[i + 1].Onset - stim_start_event.Onset < min_duration
       \/ stim_events[i + 1].Onset - stim_start_event.Onset > max_duration

\* C22: a 'stim end' that closes a buffered start with a duration below
\* min_duration or above max_duration adds exactly one rejection record, which
\* names the start and the end and has reason 'Invalid duration' with the
\* measured duration; the accepted events are unchanged and the validator
\* expects a start again.
C22_OutOfRangePairRejected ==
    [][EndOutOfRange =>
          /\ Len(omitted_events') = Len(omitted_events) + 1
          /\ SubSeq(omitted_events', 1, Len(omitted_events)) = omitted_events
          /\ omitted_events'[Len(omitted_events')] =
                 [stim_start_index |-> stim_start_event.name,
                  stim_start_onset |-> stim_start_event.Onset,
                  stim_end_index |-> stim_events[i + 1].name,
                  stim_end_onset |-> stim_events[i + 1].Onset,
                  reason |-> <<"Invalid duration",
                               stim_events[i + 1].Onset - stim_start_event.Onset>>]
          /\ cleaned_events' = cleaned_events
          /\ expected_event' = "stim start"]_vars

\* a pair that was too long was rejected, and the start and end that followed
\* it were accepted as a pair
C22_Witness ==
    /\ pc = "cleaned"
    /\ run = 1
    /\ Len(omitted_events) = 1
    /\ omitted_events[1].reason[1] = "Invalid duration"
    /\ omitted_events[1].reason[2] > max_duration
    /\ Len(cleaned_events) = 2
    /\ cleaned_events[1].name = omitted_events[1].stim_end_index + 1

\* the segmenter processes the next protocol in this step
ProcessesProtocol == pc = "segment" /\ Len(stim_epochs') = Len(stim_epochs) + 1

\* C23: processing protocol i changes, among the epochs already emitted, at most
\* the end of Post[i-1], and never increases it: every emitted During and Pre
\* epoch, every Post start and every Post epoch before i-1 keep their values.
\* The Post epoch that may be shrunk is still nominal, and the overlap is
\* measured against its nominal end, so each Post epoch is shrunk at most once,
\* by its immediate successor.
C23_OnlyPreviousPostEndChanges ==
    /\ [][ProcessesProtocol =>
             LET n == Len(stim_epochs) IN
             /\ SubSeq(pre_stim_epochs', 1, n) = pre_stim_epochs
             /\ SubSeq(stim_epochs', 1, n) = stim_epochs
             /\ Len(post_stim_epochs') = n + 1
             /\ \A k \in 1..(n - 1) : post_stim_epochs'[k] = post_stim_epochs[k]
             /\ n >= 1 =>
                   /\ post_stim_epochs'[n][1] = post_stim_epochs[n][1]
                   /\ post_stim_epochs'[n][3] = post_stim_epochs[n][3]
                   /\ post_stim_epochs'[n][2] <= post_stim_epochs[n][2]
                   /\ post_stim_epochs[n] = original_post_stim_epochs[n]
                   /\ prev_post_stim_end = original_post_stim_epochs[n][2]]_vars
    /\ [](post_stim_epochs # <<>> =>
             post_stim_epochs[Len(post_stim_epochs)] =
                 original_post_stim_epochs[Len(post_stim_epochs)])

\* three protocols: the first two post-stim epochs were shrunk, each by its
\* successor, and the last is nominal
C23_Witness ==
    /\ pc = "segmented"
    /\ NumProtocols = 3
    /\ post_stim_epochs[1][2] < original_post_stim_epochs[1][2]
    /\ post_stim_epochs[2][2] < original_post_stim_epochs[2][2]
    /\ post_stim_epochs[1][1] = original_post_stim_epochs[1][1]
    /\ post_stim_epochs[3] = original_post_stim_epochs[3]

Classified == pc \in {"classified", "reclassified"}

\* C24: the first hit of the scan over all Pre, then all During, then all Post
\* epochs decides: a wave that starts where protocol k starts is Pre of k, a
\* wave that starts where protocol k ends is During of k, and a wave that
\* starts in both Post[k] and Pre[k+1] is Pre of k+1.
C24_BoundaryLabels ==
    Classified =>
        /\ \A k \in 1..NumProtocols :
              wave.Start = stim_epochs[k][1] =>
                  (wave.Classification = "Pre-Stim" /\ wave.Protocol = k)
        /\ \A k \in 1..NumProtocols :
              wave.Start = stim_epochs[k][2] =>
                  (wave.Classification = "Stim" /\ wave.Protocol = k)
        /\ \A k \in 1..(NumProtocols - 1) :
              (Contains(post_stim_epochs[k], wave.Start) /\
               Contains(pre_stim_epochs[k + 1], wave.Start)) =>
                  (wave.Classification = "Pre-Stim" /\ wave.Protocol = k + 1)

\* C25: for the protocols the validator accepted, a wave that starts strictly
\* inside the stimulation window of protocol k is classified Stim with protocol
\* k, and no Pre epoch of protocol k+1 starts before protocol k ends.
C25_InsideStimIsStim ==
    /\ Classified =>
          \A k \in 1..NumProtocols :
              (stim_epochs[k][1] < wave.Start /\ wave.Start < stim_epochs[k][2]) =>
                  (wave.Classification = "Stim" /\ wave.Protocol = k)
    /\ Segmented =>
          \A k \in 1..(NumProtocols - 1) : pre_stim_epochs[k + 1][1] >= stim_epochs[k][2]

\* the event with index n is among the accepted events
InAccepted(n) == \E k \in 1..Len(cleaned_events) : cleaned_events[k].name = n

\* the event with index n is named by a record of the rejection log
InRejectionLog(n) ==
    \E r \in 1..Len(omitted_events) :
        IF omitted_events[r].reason[1] = "Unexpected event"
        THEN omitted_events[r].event_index = n
        ELSE omitted_events[r].stim_start_index = n \/ omitted_events[r].stim_end_index = n

\* C26: after validation every 'stim start' and 'stim end' of the stream is in
\* exactly one of the accepted events and the rejection log.
C26_EveryEventAccountedFor ==
    (pc = "cleaned" /\ run = 1) =>
        \A j \in 1..Len(stim_events) :
            /\ InAccepted(stim_events[j].name) \/ InRejectionLog(stim_events[j].name)
            /\ ~(InAccepted(stim_events[j].name) /\ InRejectionLog(stim_events[j].name))

\* the overlap log has a record whose later protocol is b
HasOverlapRecord(b) == \E r \in 1..Len(overlaps) : overlaps[r].protocols[2] = b

\* the records are in ascending order of the protocols they name
AscendingPairs ==
    \A r \in 1..(Len(overlaps) - 1) :
        overlaps[r].protocols[2] < overlaps[r + 1].protocols[2]

\* a record for (b-1, b) exists exactly when nominal Post[b-1] ends after nominal Pre[b] starts
RecordIffNominalOverlap(b) ==
    HasOverlapRecord(b) <=>
        original_post_stim_epochs[b - 1][2] - original_pre_stim_epochs[b][1] > 0

\* C27 as claimed: every overlap record names a pair (b-1, b) of protocols of
\* the output, 2 <= b <= N, the records are in ascending pair order, a record
\* for (b-1, b) exists exactly when nominal Post[b-1].end - nominal Pre[b].start
\* > 0, and the first protocol has no record and its Pre window is nominal.
C27_RecordsNameExistingPairs ==
    /\ \A r \in 1..Len(overlaps) :
          /\ overlaps[r].protocols[2] \in 2..NumProtocols
          /\ overlaps[r].protocols[1] = overlaps[r].protocols[2] - 1
    /\ AscendingPairs
    /\ \A b \in 2..NumProtocols : RecordIffNominalOverlap(b)
    /\ ~HasOverlapRecord(1)
    /\ NumProtocols >= 1 => pre_stim_epochs[1] = original_pre_stim_epochs[1]

\* C27 as amended: every overlap record names a pair (b-1, b) with 1 <= b <= N,
\* the records are in ascending pair order, and a record for (b-1, b), b >= 2,
\* exists exactly when nominal Post[b-1].end - nominal Pre[b].start > 0.  The
\* first protocol is compared with time 0: a record for (0, 1), naming a
\* protocol 0 that is not in the output, exists exactly when nominal
\* Pre[1].start < 0, its amount is the time before 0, and Pre[1].start is then
\* moved forward by half of it (never past Pre[1].end); otherwise Pre[1] is
\* nominal.
C27_RecordsSinceZero ==
    /\ \A r \in 1..Len(overlaps) :
          /\ overlaps[r].protocols[2] \in 1..NumProtocols
          /\ overlaps[r].protocols[1] = overlaps[r].protocols[2] - 1
          /\ overlaps[r].overlap_amount > 0
    /\ AscendingPairs
    /\ \A b \in 2..NumProtocols : RecordIffNominalOverlap(b)
    /\ NumProtocols >= 1 =>
          LET nominal == original_pre_stim_epochs[1] IN
          /\ HasOverlapRecord(1) <=> nominal[1] < 0
          /\ nominal[1] < 0 =>
                /\ overlaps[1].protocols = <<0, 1>>
                /\ overlaps[1].overlap_amount = 0 - nominal[1]
                /\ pre_stim_epochs[1][2] = nominal[2]
                /\ \/ 2 * (pre_stim_epochs[1][1] - nominal[1]) = 0 - nominal[1]
                   \/ pre_stim_epochs[1][1] = nominal[2]
          /\ nominal[1] >= 0 => pre_stim_epochs[1] = nominal

\* three protocols: the first starts too early for its Pre window, the second
\* overlaps the first, the third is far from the second
C27_Witness ==
    /\ pc = "segmented"
    /\ NumProtocols = 3
    /\ Len(overlaps) = 2
    /\ overlaps[1].protocols = <<0, 1>>
    /\ overlaps[2].protocols = <<1, 2>>
    /\ pre_stim_epochs[1][1] > original_pre_stim_epochs[1][1]
    /\ pre_stim_epochs[3] = original_pre_stim_epochs[3]

\* the positions, from the k-th on, of the waves of a table that open a group:
\* the first wave, and every wave whose Start is strictly greater than the End
\* of the wave that opened the group before it plus the window
RECURSIVE OpenersFrom(_, _, _, _)
OpenersFrom(table, k, reference, window) ==
    IF k > Len(table) THEN <<>>
    ELSE IF ~reference.finite \/ 2 * table[k].Start > 2 * reference.value + window
         THEN <<k>> \o OpenersFrom(table, k + 1,
                                   [finite |-> TRUE, value |-> table[k].End], window)
    ELSE OpenersFrom(table, k + 1, reference, window)

\* the positions of the openers of the table under the window, whatever the tie-break
Openers == OpenersFrom(df_sorted, 1, NegInf, window_size)

\* the k-th group: the waves from the k-th opener up to the next opener
Group(k) ==
    SubSeq(df_sorted, Openers[k],
           IF k < Len(Openers) THEN Openers[k + 1] - 1 ELSE Len(df_sorted))

\* the output of the call that picked the first wave, kept by filter_and_save_epochs
FirstOutput == filtered_files[1].filtered_epochs_df

\* the call under way is the one on the same table and window that picks the most negative wave
OtherTieBreak == Len(filtered_files) = 1 /\ pick_most_negative

\* the call under way is the one on the output of the call before it
OwnOutput == Len(filtered_files) = 1 /\ ~pick_most_negative

\* C28: filter_epochs with First and with MostNegativePeak, on the same table
\* and window, form the same groups: under either tie-break the k-th group
\* resolved is the k-th group of the partition fixed by the table and the
\* window alone, one wave of it is put out, both outputs have the same length,
\* and the k-th output under MostNegativePeak comes from the group whose first
\* wave is the k-th output under First.
C28_SameGroups ==
    /\ [][Emits =>
             /\ Len(filtered_epochs_list') = Len(filtered_epochs_list) + 1
             /\ Len(filtered_epochs_list') <= Len(Openers)
             /\ current_window = Group(Len(filtered_epochs_list'))
             /\ \E k \in 1..Len(current_window) : Emitted = current_window[k]
             /\ OtherTieBreak =>
                   /\ Len(filtered_epochs_list') <= Len(FirstOutput)
                   /\ current_window[1] = FirstOutput[Len(filtered_epochs_list')]]_vars
    /\ [](pc = "filtered" =>
             /\ Len(filtered_epochs_list) = Len(Openers)
             /\ OtherTieBreak => Len(filtered_epochs_list) = Len(FirstOutput))

\* both tie-breaks were applied to one table of two groups, and from the first
\* group MostNegativePeak took a wave other than the first
C28_Witness ==
    /\ pc = "filtered"
    /\ OtherTieBreak
    /\ Len(filtered_epochs_list) = 2
    /\ Len(FirstOutput) = 2
    /\ filtered_epochs_list[1] # FirstOutput[1]
    /\ filtered_epochs_list[1] = df_sorted[2]
    /\ FirstOutput[1] = df_sorted[1]

\* C29: filter_epochs with First, applied with the same window to its own
\* output, returns that output: the same waves in the same order.
C29_IdempotentUnderFirst ==
    (pc = "filtered" /\ OwnOutput) =>
        /\ df_sorted = FirstOutput
        /\ filtered_epochs_list = FirstOutput

\* the second call was on an output of two waves and has returned
C29_Witness ==
    /\ pc = "filtered"
    /\ OwnOutput
    /\ window_size = 2
    /\ Len(FirstOutput) = 2
    /\ Len(filtered_epochs_list) = 2
    /\ row_index = 2

\* the list is the table's rows at strictly increasing positions
IsSubsequence(list, table) ==
    \E f \in [1..Len(list) -> 1..Len(table)] :
        /\ \A j \in 1..(Len(list) - 1) : f[j] < f[j + 1]
        /\ \A j \in 1..Len(list) : list[j] = table[f[j]]

\* C30: under First, for a table in any order, every wave of the output after
\* the first has Start strictly greater than the End of the output wave before
\* it plus the window; the output is the table's rows at increasing positions,
\* the first wave of every group and nothing else; and the output is empty only
\* when the table is empty.
C30_SpacingUnderFirst ==
    (pc = "filtered" /\ ~pick_most_negative) =>
        /\ \A j \in 1..(Len(filtered_epochs_list) - 1) :
              2 * filtered_epochs_list[j + 1].Start >
                  2 * filtered_epochs_list[j].End + window_size
        /\ IsSubsequence(filtered_epochs_list, df_sorted)
        /\ Len(filtered_epochs_list) = Len(Openers)
        /\ \A k \in 1..Len(Openers) : filtered_epochs_list[k] = df_sorted[Openers[k]]
        /\ filtered_epochs_list = <<>> <=> df_sorted = <<>>

\* a table that is not in time order: its second wave starts before the first
\* and joins its group, the third opens a second group
C30_Witness ==
    /\ pc = "filtered"
    /\ ~pick_most_negative
    /\ filtered_files = <<>>
    /\ Len(df_sorted) = 3
    /\ df_sorted[2].Start < df_sorted[1].Start
    /\ filtered_epochs_list = <<df_sorted[1], df_sorted[3]>>
====
